---- MODULE Spec2Model ----
(***************************************************************************)
(* Construction of the kd-tree accelerator of rs_pbrt                      *)
(* (src/accelerators/kdtreeaccel.rs): KdTreeAccel::new, the public         *)
(* KdTreeAccel::build_tree and KdTreeAccel::world_bound.                    *)
(*                                                                         *)
(* Indices are 0-based as in the source; a Vec v is a TLA+ sequence and    *)
(* v[k] of the source is At(v, k).  A panic of the Rust code (a failed     *)
(* assert!, an index out of range) ends the run in pc = "panicked".        *)
(* Float values are exact rationals extended with +/-infinity and NaN, so  *)
(* the comparisons of the source keep their IEEE outcome on these values;  *)
(* the rounding of f32 is not modelled.                                    *)
(***************************************************************************)
EXTENDS Integers, Sequences, FiniteSets, TLC

(* ---------------------------- bounds ----------------------------------- *)
\* largest number of primitives handed to new / allocated for
MaxPrims == 2
\* x coordinates of primitive boxes range over 0 .. MaxCoord
MaxCoord == 2

(* ------------------------ program constants ---------------------------- *)
Start == 0
End == 1
IsectCostDefault == 80
TraversalCostDefault == 1
MaxPrimsDefault == 1
\* f32::MAX / f32::MIN of Bounds3f::default(), as a number beyond every coordinate
FloatMax == 1000

(* ----------------------------- Float ----------------------------------- *)
\* a Float is num/den with den > 0, or +inf (1/0), -inf (-1/0), NaN (0/0)
F(n) == [num |-> n, den |-> 1]
Inf == [num |-> 1, den |-> 0]
NaN == [num |-> 0, den |-> 0]
IsNaN(a) == a.den = 0 /\ a.num = 0
IsInf(a) == a.den = 0 /\ a.num # 0
Sgn(n) == IF n > 0 THEN 1 ELSE IF n < 0 THEN -1 ELSE 0

FMul(a, b) ==
    IF IsNaN(a) \/ IsNaN(b) THEN NaN
    ELSE IF IsInf(a) \/ IsInf(b)
         THEN [num |-> Sgn(a.num) * Sgn(b.num), den |-> 0]
         ELSE [num |-> a.num * b.num, den |-> a.den * b.den]

FAdd(a, b) ==
    IF IsNaN(a) \/ IsNaN(b) THEN NaN
    ELSE IF IsInf(a) /\ IsInf(b)
         THEN (IF a.num = b.num THEN a ELSE NaN)
         ELSE IF IsInf(a) THEN a
         ELSE IF IsInf(b) THEN b
         ELSE [num |-> a.num * b.den + b.num * a.den, den |-> a.den * b.den]

FNeg(a) == [num |-> 0 - a.num, den |-> a.den]

\* 1.0 / x for an integer-valued x
FRecip(x) ==
    IF x = 0 THEN Inf
    ELSE [num |-> Sgn(x), den |-> x * Sgn(x)]

\* a < b; every comparison with NaN is false
FLt(a, b) ==
    IF IsNaN(a) \/ IsNaN(b) THEN FALSE
    ELSE IF IsInf(a) /\ IsInf(b) THEN a.num < b.num
    ELSE IF IsInf(a) THEN a.num < 0
    ELSE IF IsInf(b) THEN b.num > 0
    ELSE a.num * b.den < b.num * a.den

FGt(a, b) == FLt(b, a)

\* create()'s default for "emptybonus": 0.5
EmptyBonusDefault == [num |-> 1, den |-> 2]

(* ---------------------------- geometry --------------------------------- *)
At(s, k) == s[k + 1]
Min2(a, b) == IF a < b THEN a ELSE b
Max2(a, b) == IF a > b THEN a ELSE b

\* Bounds3f { p_min, p_max }; a point is a sequence indexed by axis 0..2
Bounds3fDefault ==
    [p_min |-> <<FloatMax, FloatMax, FloatMax>>,
     p_max |-> <<0 - FloatMax, 0 - FloatMax, 0 - FloatMax>>]

bnd3_union_bnd3(b1, b2) ==
    [p_min |-> [a \in 1..3 |-> Min2(b1.p_min[a], b2.p_min[a])],
     p_max |-> [a \in 1..3 |-> Max2(b1.p_max[a], b2.p_max[a])]]

\* d = p_max - p_min
Diagonal(b) == [a \in 1..3 |-> b.p_max[a] - b.p_min[a]]

surface_area(b) ==
    LET d == Diagonal(b)
    IN  2 * (d[1] * d[2] + d[1] * d[3] + d[2] * d[3])

maximum_extent(b) ==
    LET d == Diagonal(b)
    IN  IF d[1] > d[2] /\ d[1] > d[3] THEN 0
        ELSE IF d[2] > d[3] THEN 1 ELSE 2

\* floor(log2(v)) by leading zeros; -1 for v = 0
RECURSIVE log_2_int_i32(_)
log_2_int_i32(v) == IF v <= 0 THEN -1 ELSE 1 + log_2_int_i32(v \div 2)

\* (8.0 + 1.3 * log_2_int_i32(n)).round()
AutoMaxDepth(n) == (80 + 13 * log_2_int_i32(n) + 5) \div 10

(* ------------------------------ edges ---------------------------------- *)
\* BoundEdge::new(t, prim_num, starting)
BoundEdgeNew(t, prim_num, starting) ==
    [t |-> t, prim_num |-> prim_num,
     edge_type |-> IF starting THEN Start ELSE End]

\* BoundEdge::default()
BoundEdgeDefault == [t |-> 0, prim_num |-> 0, edge_type |-> Start]

\* the comparator of sort_unstable_by: e0 is ordered strictly before e1
EdgeLess(e0, e1) ==
    IF e0.t = e1.t THEN e0.edge_type < e1.edge_type ELSE e0.t < e1.t

\* every order sort_unstable_by may leave the positions I of s in: elements
\* the comparator calls equal may come out in any order
RECURSIVE SortOutcomes(_, _)
SortOutcomes(s, I) ==
    IF I = {} THEN {<<>>}
    ELSE UNION { { <<s[k]>> \o r : r \in SortOutcomes(s, I \ {k}) } :
                 k \in { j \in I : \A m \in I :
                                     /\ ~EdgeLess(s[m], s[j])
                                     /\ s[m] = s[j] => j <= m } }

SortUnstable(s) == SortOutcomes(s, DOMAIN s)

(* ------------------------------ state ---------------------------------- *)
VARIABLES
    pc,            \* "idle", "entry", "loop", "sweep", "decide", "returned", "panicked"
    panic_line,    \* the source line of the panic, 0 while there is none
    mode,          \* which public function was called: "none", "new", "build_tree"
    p,             \* the primitives, each by its world_bound()
    max_depth,     \* new's max_depth after the automatic derivation
    kd_tree,       \* the KdTreeAccel under construction (self), NoTree before line 119
    edges,         \* [Vec<BoundEdge>; 3]
    prims0,
    prims1,
    node_num,
    node_bounds,
    prim_nums,
    n_primitives,
    bad_refines_arg, \* the argument bad_refines; bad_refines is its mutable copy
    bad_refines,
    best_axis,
    best_offset,
    best_cost,
    axis,
    retries,
    i,             \* loop variable of the sweep (line 214)
    n_below,
    n_above,
    evaluated,     \* the last sweep iteration computed a split cost (line 219 held)
    eb,            \* eb of the last computed split cost
    n0,
    n1,
    result,        \* how build_tree returned: "none", "leaf", "interior"
    swept          \* the axes whose sweep was started in this invocation, in order

scene   == <<p, max_depth, kd_tree>>
scratch == <<edges, prims0, prims1>>
args    == <<node_num, node_bounds, prim_nums, n_primitives, bad_refines_arg>>
best    == <<best_axis, best_offset, best_cost>>
sweepv  == <<i, n_below, n_above, evaluated, eb>>
classv  == <<n0, n1, result>>
vars == <<pc, panic_line, mode, scene, scratch, args, bad_refines, best, axis, retries,
          sweepv, classv, swept>>

NoTree == [isect_cost |-> 0, traversal_cost |-> 0, max_prims |-> 0,
           empty_bonus |-> F(0), n_alloced_nodes |-> 0, next_free_node |-> -1,
           bounds |-> Bounds3fDefault]

(* ------------------------------ inputs --------------------------------- *)
\* the y and z extents of the boxes of a scene
YZExtents == {<<0, 0>>, <<1, 0>>, <<0, 1>>}
\* the bad_refines arguments given to build_tree: a node that reaches 3 is a
\* leaf (line 268), so no node is entered with more than 2
BadRefinesInputs == {0, 1, 2}
\* the max_depth arguments given to new: -1 asks for the automatic depth
MaxDepthInputs == {-1, 2}

Intervals == { iv \in (0..MaxCoord) \X (0..MaxCoord) : iv[1] <= iv[2] }

\* a well-formed box: p_min <= p_max on each axis
Box(iv, ey, ez) == [p_min |-> <<iv[1], 0, 0>>, p_max |-> <<iv[2], ey, ez>>]

Scenes ==
    UNION { { [k \in 1..n |-> Box(ivs[k], yz[1], yz[2])] :
                ivs \in [1..n -> Intervals] } :
            <<n, yz>> \in (0..MaxPrims) \X YZExtents }

(* -------------------------- KdTreeAccel::new --------------------------- *)
\* lines 83-86
EffectiveMaxDepth(md, p_len) == IF md <= 0 THEN AutoMaxDepth(p_len) ELSE md

\* lines 89-93: bounds after the loop over the primitives
RECURSIVE UnionOfBounds(_, _)
UnionOfBounds(b, ps) ==
    IF ps = <<>> THEN b
    ELSE UnionOfBounds(bnd3_union_bnd3(b, Head(ps)), Tail(ps))

\* lines 95-99, 111-116: each edge list gets two default edges per primitive
AllocEdges(p_len) == [a \in 1..3 |-> [k \in 1..(2 * p_len) |-> BoundEdgeDefault]]

\* lines 100, 108: one 0 per primitive
AllocPrims0(p_len) == [k \in 1..p_len |-> 0]

\* lines 101-104: with_capacity leaves the length 0, and the loop pushes one 0
\* for every index below that length
AllocPrims1(md, p_len) ==
    LET fresh == <<>>
    IN  fresh \o [k \in 1..Len(fresh) |-> 0]

\* lines 106-109
SeedPrimNums(p_len) == [k \in 1..p_len |-> k - 1]

\* lines 119-129
NewTree(isect, trav, ebonus, mprims, b) ==
    [isect_cost |-> isect, traversal_cost |-> trav, max_prims |-> mprims,
     empty_bonus |-> ebonus, n_alloced_nodes |-> 0, next_free_node |-> 0,
     bounds |-> b]

Init ==
    /\ pc = "idle"
    /\ panic_line = 0
    /\ mode = "none"
    /\ p = <<>>
    /\ max_depth = 0
    /\ kd_tree = NoTree
    /\ edges = <<<<>>, <<>>, <<>>>>
    /\ prims0 = <<>>
    /\ prims1 = <<>>
    /\ node_num = 0
    /\ node_bounds = Bounds3fDefault
    /\ prim_nums = <<>>
    /\ n_primitives = 0
    /\ bad_refines_arg = 0
    /\ bad_refines = 0
    /\ best_axis = -1
    /\ best_offset = -1
    /\ best_cost = Inf
    /\ axis = 0
    /\ retries = 0
    /\ i = 0
    /\ n_below = 0
    /\ n_above = 0
    /\ evaluated = FALSE
    /\ eb = F(0)
    /\ n0 = 0
    /\ n1 = 0
    /\ result = "none"
    /\ swept = <<>>

\* KdTreeAccel::new up to the call of build_tree (lines 77-143), with the
\* parameters create() passes by default
New ==
    /\ pc = "idle"
    /\ \E ps \in Scenes, md \in MaxDepthInputs :
         LET p_len == Len(ps)
             b == UnionOfBounds(Bounds3fDefault, ps)
         IN  /\ p' = ps
             /\ max_depth' = EffectiveMaxDepth(md, p_len)
             /\ edges' = AllocEdges(p_len)
             /\ prims0' = AllocPrims0(p_len)
             /\ prims1' = AllocPrims1(EffectiveMaxDepth(md, p_len), p_len)
             /\ kd_tree' = NewTree(IsectCostDefault, TraversalCostDefault,
                                   EmptyBonusDefault, MaxPrimsDefault, b)
             /\ node_num' = 0
             /\ node_bounds' = b
             /\ prim_nums' = SeedPrimNums(p_len)
             /\ n_primitives' = p_len
             /\ bad_refines_arg' = 0
    /\ mode' = "new"
    /\ pc' = "entry"
    /\ UNCHANGED <<panic_line, bad_refines, best, axis, retries, sweepv, classv, swept>>

\* a call of the public build_tree for a node that holds only the first n of
\* the primitives the scratch buffers were allocated for
CallBuildTree ==
    /\ pc = "idle"
    /\ \E ps \in Scenes, br \in BadRefinesInputs :
       \E n \in 0..(Len(ps) - 1) :
         LET p_len == Len(ps)
             b == UnionOfBounds(Bounds3fDefault, ps)
         IN  /\ p' = ps
             /\ max_depth' = AutoMaxDepth(p_len)
             /\ edges' = AllocEdges(p_len)
             /\ prims0' = AllocPrims0(p_len)
             /\ prims1' = AllocPrims1(AutoMaxDepth(p_len), p_len)
             /\ kd_tree' = NewTree(IsectCostDefault, TraversalCostDefault,
                                   EmptyBonusDefault, MaxPrimsDefault, b)
             /\ node_num' = 0
             /\ node_bounds' = b
             /\ prim_nums' = SubSeq(SeedPrimNums(p_len), 1, n)
             /\ n_primitives' = n
             /\ bad_refines_arg' = br
    /\ mode' = "build_tree"
    /\ pc' = "entry"
    /\ UNCHANGED <<panic_line, bad_refines, best, axis, retries, sweepv, classv, swept>>

(* ----------------------- KdTreeAccel::build_tree ----------------------- *)
\* line 182
OldCost == F(kd_tree.isect_cost * n_primitives)
\* lines 183-184
InvTotalSa == FRecip(surface_area(node_bounds))

\* lines 173-188: the entry of build_tree
Enter ==
    /\ pc = "entry"
    /\ bad_refines' = bad_refines_arg
    /\ IF node_num # kd_tree.next_free_node
       THEN /\ pc' = "panicked"
            /\ UNCHANGED <<kd_tree, best, axis, retries>>
       ELSE /\ kd_tree' = [kd_tree EXCEPT !.next_free_node = @ + 1]
            /\ best_axis' = -1
            /\ best_offset' = -1
            /\ best_cost' = Inf
            /\ axis' = maximum_extent(node_bounds)
            /\ retries' = 0
            /\ pc' = "loop"
    /\ panic_line' = IF pc' = "panicked" THEN 174 ELSE 0
    /\ UNCHANGED <<mode, p, max_depth, scratch, args, sweepv, classv, swept>>

\* lines 192-197: the edge list of the axis with the node's edges written to
\* positions 0 .. 2n-1
WriteEdges(es, ax) ==
    [k \in 1..Len(es) |->
        IF k <= 2 * n_primitives
        THEN LET pn == At(prim_nums, (k - 1) \div 2)
                 b == At(p, pn)
             IN  IF (k - 1) % 2 = 0
                 THEN BoundEdgeNew(b.p_min[ax + 1], pn, TRUE)
                 ELSE BoundEdgeNew(b.p_max[ax + 1], pn, FALSE)
        ELSE es[k]]

\* lines 199-205: the sort is over the whole Vec of the axis
SortedEdges(es) == SortUnstable(es)

\* lines 191-213: one pass of the retry loop up to the start of the sweep
InitEdges ==
    /\ pc = "loop"
    /\ IF Len(prim_nums) < n_primitives \/ Len(edges[axis + 1]) < 2 * n_primitives
       THEN /\ pc' = "panicked"
            /\ UNCHANGED <<edges, sweepv>>
       ELSE /\ \E sorted \in SortedEdges(WriteEdges(edges[axis + 1], axis)) :
                 edges' = [edges EXCEPT ![axis + 1] = sorted]
            /\ n_below' = 0
            /\ n_above' = n_primitives
            /\ i' = 0
            /\ UNCHANGED <<evaluated, eb>>
            /\ pc' = "sweep"
    /\ panic_line' = IF pc' = "panicked" THEN 193 ELSE 0
    /\ swept' = Append(swept, axis)
    /\ UNCHANGED <<mode, scene, prims0, prims1, args, bad_refines, best, axis,
                   retries, classv>>

\* line 219
StrictlyInside(edge_t) ==
    /\ edge_t > node_bounds.p_min[axis + 1]
    /\ edge_t < node_bounds.p_max[axis + 1]

\* lines 235-240
EmptyBonusAt(nb, na) ==
    IF na = 0 \/ nb = 0 THEN kd_tree.empty_bonus ELSE F(0)

\* lines 223-244
SplitCost(edge_t, nb, na) ==
    LET d == Diagonal(node_bounds)
        other_axis_0 == (axis + 1) % 3
        other_axis_1 == (axis + 2) % 3
        below_sa == 2 * (d[other_axis_0 + 1] * d[other_axis_1 + 1]
                         + (edge_t - node_bounds.p_min[axis + 1])
                           * (d[other_axis_0 + 1] + d[other_axis_1 + 1]))
        above_sa == 2 * (d[other_axis_0 + 1] * d[other_axis_1 + 1]
                         + (node_bounds.p_max[axis + 1] - edge_t)
                           * (d[other_axis_0 + 1] + d[other_axis_1 + 1]))
        p_below == FMul(F(below_sa), InvTotalSa)
        p_above == FMul(F(above_sa), InvTotalSa)
    IN  FAdd(F(kd_tree.traversal_cost),
             FMul(FMul(F(kd_tree.isect_cost),
                       FAdd(F(1), FNeg(EmptyBonusAt(nb, na)))),
                  FAdd(FMul(p_below, F(nb)), FMul(p_above, F(na)))))

\* the value of n_below when the next iteration of the sweep starts: the loop
\* body (lines 215-251) holds no statement that changes it
NBelowAfter(nb, e) == nb

\* lines 214-252: one iteration of the sweep.  n_above -= 1 at 0 panics in a
\* build with overflow checks
SweepStep ==
    /\ pc = "sweep"
    /\ i < 2 * n_primitives
    /\ LET e == At(edges[axis + 1], i)
           na == IF e.edge_type = End THEN n_above - 1 ELSE n_above
       IN  IF na < 0
           THEN /\ pc' = "panicked"
                /\ UNCHANGED <<best, sweepv>>
           ELSE /\ n_above' = na
                /\ IF StrictlyInside(e.t)
                   THEN /\ evaluated' = TRUE
                        /\ eb' = EmptyBonusAt(n_below, na)
                        /\ IF FLt(SplitCost(e.t, n_below, na), best_cost)
                           THEN /\ best_cost' = SplitCost(e.t, n_below, na)
                                /\ best_axis' = axis
                                /\ best_offset' = i
                           ELSE UNCHANGED best
                   ELSE /\ evaluated' = FALSE
                        /\ UNCHANGED <<eb, best>>
                /\ n_below' = NBelowAfter(n_below, e)
                /\ i' = i + 1
                /\ pc' = "sweep"
    /\ panic_line' = IF pc' = "panicked" THEN 216 ELSE 0
    /\ UNCHANGED <<mode, scene, scratch, args, bad_refines, axis, retries,
                   classv, swept>>

\* line 253
SweepAssertion(nb, na, n) == nb = n /\ na = 0

\* one retry too many
RetryAllowedOffByOne(ba, r) == ba = -1 /\ r < 3

\* line 255
RetryAllowed(ba, r) == ba = -1 /\ r < 2

\* lines 253-261: the end of the sweep, the assertion and the retry decision
SweepEnd ==
    /\ pc = "sweep"
    /\ i = 2 * n_primitives
    /\ IF ~SweepAssertion(n_below, n_above, n_primitives)
       THEN /\ pc' = "panicked"
            /\ UNCHANGED <<axis, retries>>
       ELSE IF RetryAllowed(best_axis, retries)
            THEN /\ retries' = retries + 1
                 /\ axis' = (axis + 1) % 3
                 /\ pc' = "loop"
            ELSE /\ pc' = "decide"
                 /\ UNCHANGED <<axis, retries>>
    /\ panic_line' = IF pc' = "panicked" THEN 253 ELSE 0
    /\ UNCHANGED <<mode, scene, scratch, args, bad_refines, best, sweepv,
                   classv, swept>>

\* the comparison of line 263 turned around
BadRefinesNextFlipped(br, bc, oc) == IF FLt(bc, oc) THEN br + 1 ELSE br

\* lines 263-265
BadRefinesNext(br, bc, oc) == IF FGt(bc, oc) THEN br + 1 ELSE br

\* lines 266-268
LeafForced(bc, oc, n, ba, br) ==
    \/ FGt(bc, FMul(F(4), oc)) /\ n < 16
    \/ ba = -1
    \/ br = 3

IsStart(e) == e.edge_type = Start
IsEnd(e) == e.edge_type = End
PrimNumsOf(es) == [k \in 1..Len(es) |-> es[k].prim_num]

\* lines 276-281: the primitives written to prims0, in order
BelowPrims(es, offset) == PrimNumsOf(SelectSeq(SubSeq(es, 1, offset), IsStart))

\* lines 282-287: the primitives written to prims1, in order
AbovePrims(es, offset, n) ==
    PrimNumsOf(SelectSeq(SubSeq(es, offset + 2, 2 * n), IsEnd))

\* buf after writing the elements of w to positions 0, 1, ... until a write
\* falls outside buf
WriteInto(buf, w) ==
    [k \in 1..Len(buf) |-> IF k <= Len(w) THEN w[k] ELSE buf[k]]

\* lines 263-288: the leaf decision and the classification; the function ends
\* after the classification
Decide ==
    /\ pc = "decide"
    /\ bad_refines' = BadRefinesNext(bad_refines, best_cost, OldCost)
    /\ IF LeafForced(best_cost, OldCost, n_primitives, best_axis, bad_refines')
       THEN /\ result' = "leaf"
            /\ pc' = "returned"
            /\ panic_line' = 0
            /\ UNCHANGED <<prims0, prims1, n0, n1>>
       ELSE IF best_axis \notin 0..2 \/ best_offset \notin 0..(Len(edges[best_axis + 1]) - 1)
            THEN /\ pc' = "panicked"
                 /\ panic_line' = 277
                 /\ UNCHANGED <<prims0, prims1, n0, n1, result>>
            ELSE LET es == edges[best_axis + 1]
                     below == BelowPrims(es, best_offset)
                     above == AbovePrims(es, best_offset, n_primitives)
                 IN  /\ prims0' = WriteInto(prims0, below)
                     /\ n0' = Min2(Len(below), Len(prims0))
                     /\ IF Len(below) > Len(prims0)
                        THEN /\ pc' = "panicked"
                             /\ panic_line' = 278
                             /\ UNCHANGED <<prims1, n1, result>>
                        ELSE /\ prims1' = WriteInto(prims1, above)
                             /\ n1' = Min2(Len(above), Len(prims1))
                             /\ IF Len(above) > Len(prims1)
                                THEN /\ pc' = "panicked"
                                     /\ panic_line' = 284
                                     /\ UNCHANGED result
                                ELSE /\ pc' = "returned"
                                     /\ panic_line' = 0
                                     /\ result' = "interior"
    /\ UNCHANGED <<mode, scene, edges, args, best, axis, retries, sweepv, swept>>

\* KdTreeAccel::world_bound (lines 292-295)
world_bound(tree) == Bounds3fDefault

Next ==
    \/ New
    \/ CallBuildTree
    \/ Enter
    \/ InitEdges
    \/ SweepStep
    \/ SweepEnd
    \/ Decide

Spec == Init /\ [][Next]_vars

(* ------------------------------ claims --------------------------------- *)
\* the node's primitives and the part of the axis's edge list the sweep reads
NodePrims == { At(prim_nums, k) : k \in 0..(n_primitives - 1) }
SweptEdges == SubSeq(edges[axis + 1], 1, 2 * n_primitives)
\* build_tree went past the axis loop (line 263 and after)
PastLoop == pc = "returned" \/ (pc = "panicked" /\ panic_line >= 263)

\* C1: for every well-formed primitive collection, new runs to completion:
\* no run of new / build_tree ends in a panic.
C1_NewRunsToCompletion == mode = "new" => pc # "panicked"

\* C2: at the end of every axis sweep, n_below == n_primitives and
\* n_above == 0, for every n_primitives >= 0.
C2_SweepCountersAtEnd ==
    (pc = "sweep" /\ i = 2 * n_primitives)
        => (n_below = n_primitives /\ n_above = 0)

C4_LeafExactlyWhenForced ==
    LET old_cost == F(kd_tree.isect_cost * n_primitives)
        counted == IF FLt(old_cost, best_cost)
                   THEN bad_refines_arg + 1 ELSE bad_refines_arg
        forced == \/ best_axis = -1
                  \/ FLt(FMul(F(4), old_cost), best_cost) /\ n_primitives < 16
                  \/ counted = 3
    IN  PastLoop => /\ bad_refines = counted
                    /\ (result = "leaf") <=> forced
C4_Witness ==
    /\ pc = "returned"
    /\ result = "leaf"
    /\ best_axis = -1
    /\ bad_refines = 3

\* the run of build_tree has ended, by a return or by a panic
Ended == pc \in {"returned", "panicked"}
\* the axis loop left a split that meets none of the leaf-forcing conditions
SplitAccepted ==
    LET old_cost == F(kd_tree.isect_cost * n_primitives)
        counted == IF FLt(old_cost, best_cost)
                   THEN bad_refines_arg + 1 ELSE bad_refines_arg
    IN  /\ best_axis # -1
        /\ ~(FLt(FMul(F(4), old_cost), best_cost) /\ n_primitives < 16)
        /\ counted # 3
Range(s) == { s[k] : k \in DOMAIN s }

C7_ScratchSizes ==
    (mode = "new" /\ pc = "entry")
        => /\ \A a \in 1..3 : Len(edges[a]) = 2 * Len(p)
           /\ Len(prims0) = Len(p)
           /\ Len(prims1) = (max_depth + 1) * Len(p)

\* C8: in a build started by new, at every split whose cost is computed,
\* n_below is the number of Start edges sorted before the current edge,
\* n_above the number of End edges sorted after it, and eb is empty_bonus
\* exactly when one of these two numbers is 0 (and 0 otherwise).
C8_SweepCounts ==
    LET cur == i    \* the current edge, 1-based: i was advanced past it
        below == Cardinality({ k \in 1..(cur - 1) : SweptEdges[k].edge_type = Start })
        above == Cardinality({ k \in (cur + 1)..(2 * n_primitives) :
                               SweptEdges[k].edge_type = End })
    IN  (mode = "new" /\ pc = "sweep" /\ evaluated)
            => /\ n_below = below
               /\ n_above = above
               /\ (eb = kd_tree.empty_bonus) <=> (below = 0 \/ above = 0)
               /\ (below > 0 /\ above > 0) => eb = F(0)

\* C9: after the sort of an axis, positions 0 .. 2n-1 of its edge list hold
\* exactly one Start and one End edge of each primitive of the node and no
\* other edge, ascending in t with Start before End at equal t; also when n
\* is smaller than the number of primitives the list was allocated for.
C9_SortedNodeEdges ==
    pc = "sweep"
        => /\ \A pn \in NodePrims : \A ty \in {Start, End} :
                Cardinality({ k \in 1..(2 * n_primitives) :
                                /\ SweptEdges[k].prim_num = pn
                                /\ SweptEdges[k].edge_type = ty
                                /\ SweptEdges[k].t =
                                     IF ty = Start THEN At(p, pn).p_min[axis + 1]
                                     ELSE At(p, pn).p_max[axis + 1] }) = 1
           /\ \A k \in 1..(2 * n_primitives) : SweptEdges[k].prim_num \in NodePrims
           /\ \A j, k \in 1..(2 * n_primitives) :
                j < k => \/ SweptEdges[j].t < SweptEdges[k].t
                         \/ /\ SweptEdges[j].t = SweptEdges[k].t
                            /\ SweptEdges[j].edge_type <= SweptEdges[k].edge_type

\* C10: the axis loop makes at most three sweeps: the first on the axis of
\* maximum extent, each next one on (axis + 1) mod 3 and only while no valid
\* split was found and fewer than 2 retries were made; no axis is swept twice;
\* the loop is left as soon as a sweep leaves a valid split; three sweeps
\* without a valid split make the node a leaf.
C10_AxisLoop ==
    /\ Len(swept) <= 3
    /\ \A j, k \in 1..Len(swept) : j # k => swept[j] # swept[k]
    /\ Len(swept) >= 1 => swept[1] = maximum_extent(node_bounds)
    /\ \A k \in 2..Len(swept) : swept[k] = (swept[k - 1] + 1) % 3
    /\ pc = "loop" => (best_axis = -1 /\ retries = Len(swept) /\ retries <= 2)
    /\ pc = "decide" => (best_axis # -1 \/ Len(swept) = 3)
    /\ (PastLoop /\ best_axis = -1) => (Len(swept) = 3 /\ result = "leaf")
C10_Witness ==
    /\ pc = "returned"
    /\ Len(swept) = 3
    /\ retries = 2
    /\ result = "leaf"

(* --------------------------- reachability ------------------------------ *)
\* the axis loop is left normally only by a node without primitives
OnlyEmptyNodesPassTheSweep == pc = "decide" => (n_primitives = 0 /\ best_axis = -1)
\* every build of one or more primitives ends at the assertion of line 253
NonEmptyBuildsAbort ==
    (Ended /\ n_primitives > 0) => (pc = "panicked" /\ panic_line = 253)
\* in a build started by new the sorted edges are those of the node
SortedNodeEdgesInNew == mode = "new" => C9_SortedNodeEdges
\* n_above reaches 0 at the end of every sweep of a build started by new
NAboveAtEndInNew ==
    (mode = "new" /\ pc = "sweep" /\ i = 2 * n_primitives) => n_above = 0
====
